---- MODULE Spec2Model ----
(***************************************************************************)
(* Face-matching decision engine of the attendance system:                 *)
(*   facial_recognition/face_recognition_utils.py                          *)
(*       AdvancedFaceRecognitionService (advanced_face_comparison,         *)
(*       advanced_verify)                                                  *)
(*   facial_recognition/views.py                                           *)
(*       intelligent_face_comparison, process_verification_with_timeout,   *)
(*       verify_attendance_face, create_employee, register_employee_face   *)
(*                                                                         *)
(* Real numbers are fixed point, in thousandths (0.75 is 750).  Descriptor *)
(* components are in hundredths.  Time is in half seconds.                 *)
(***************************************************************************)
EXTENDS Integers, Sequences, FiniteSets, TLC

(***************************************************************************)
(* Bounds of the model.                                                    *)
(***************************************************************************)
\* longest gallery of arbitrary stored descriptors drawn for the scorer
MaxEnc == 2
\* longest gallery made of copies of one descriptor
MaxCopies == 5
\* most stored landmark vectors in a scorer gallery
MaxStoredLm == 1

(***************************************************************************)
(* Configuration objects of the two implementations.                       *)
(***************************************************************************)
ADVANCED_CONFIG ==
    [ min_photos |-> 5,
      base_tolerance |-> 500,
      min_confidence |-> 750,
      max_euclidean_distance |-> 520,
      min_cosine_similarity |-> 700,
      max_tolerance |-> 580,
      min_matches |-> 1,
      min_high_quality_matches |-> 1,
      use_landmarks |-> TRUE,
      use_environmental_adaptation |-> TRUE,
      quality_threshold |-> 250,
      min_quality_for_verification |-> 200,
      min_landmark_similarity |-> 650,
      consistency_threshold |-> 250,
      \* seconds; 24 half seconds
      verification_timeout |-> 24 ]

SMART_CONFIG ==
    [ min_photos |-> 5,
      base_tolerance |-> 400,
      min_confidence |-> 700,
      min_matches |-> 3,
      use_landmarks |-> TRUE,
      use_augmentation |-> TRUE,
      max_tolerance |-> 450,
      \* seconds; 20 half seconds
      verification_timeout |-> 20,
      strict_mode |-> TRUE,
      require_full_face |-> TRUE ]

(***************************************************************************)
(* Numbers.                                                                *)
(***************************************************************************)
\* one, in thousandths
One == 1000
\* IEEE not-a-number, as numpy produces it for 0/0
NaN == -1000000
\* Python's None where a descriptor or a landmark vector is expected
None == << >>

IsNaN(x) == x = NaN

Max(a, b) == IF a >= b THEN a ELSE b
Min(a, b) == IF a <= b THEN a ELSE b

RECURSIVE SqrtIter(_, _, _)
SqrtIter(n, lo, hi) ==
    IF lo >= hi THEN lo
    ELSE LET mid == (lo + hi + 1) \div 2
         IN  IF mid * mid <= n THEN SqrtIter(n, mid, hi)
                               ELSE SqrtIter(n, lo, mid - 1)

\* floor of the square root
ISqrt(n) == SqrtIter(n, 0, 46340)

RECURSIVE SumSeq(_)
SumSeq(s) == IF s = << >> THEN 0 ELSE Head(s) + SumSeq(Tail(s))

Dot(a, b) == SumSeq([i \in 1..Len(a) |-> a[i] * b[i]])

\* np.mean of a non-empty list
Mean(s) == SumSeq(s) \div Len(s)

\* np.std (population standard deviation)
Std(s) ==
    LET m == Mean(s)
    IN  ISqrt(SumSeq([i \in 1..Len(s) |-> (s[i] - m) * (s[i] - m)]) \div Len(s))

RECURSIVE InsertDesc(_, _)
InsertDesc(x, s) ==
    IF s = << >> THEN << x >>
    ELSE IF x >= Head(s) THEN << x >> \o s
    ELSE << Head(s) >> \o InsertDesc(x, Tail(s))

RECURSIVE SortDesc(_)
\* sorted(all_scores, reverse=True)
SortDesc(s) == IF s = << >> THEN << >> ELSE InsertDesc(Head(s), SortDesc(Tail(s)))

RECURSIVE Flatten(_)
Flatten(ss) == IF ss = << >> THEN << >> ELSE Head(ss) \o Flatten(Tail(ss))

\* dict.get(key, default)
Get(d, k, default) == IF k \in DOMAIN d THEN d[k] ELSE default

(***************************************************************************)
(* The external primitives on descriptors, as the libraries compute them.  *)
(***************************************************************************)
\* face_recognition.face_distance([a], b)[0] = np.linalg.norm(a - b)
face_distance(a, b) ==
    ISqrt(100 * SumSeq([i \in 1..Len(a) |-> (a[i] - b[i]) * (a[i] - b[i])]))

\* 1 - scipy.spatial.distance.cosine(a, b); NaN when a norm is zero
CosineSimilarity(a, b) ==
    LET uu == Dot(a, a)
        vv == Dot(b, b)
    IN  IF uu = 0 \/ vv = 0 THEN NaN
        ELSE (One * Dot(a, b)) \div ISqrt(uu * vv)

\* np.corrcoef(a, b)[0, 1]; NaN when a vector has zero variance
corrcoef(a, b) ==
    LET n == Len(a)
        sa == SumSeq(a)
        sb == SumSeq(b)
        cov == n * Dot(a, b) - sa * sb
        va == n * Dot(a, a) - sa * sa
        vb == n * Dot(b, b) - sb * sb
    IN  IF va = 0 \/ vb = 0 THEN NaN
        ELSE (One * cov) \div ISqrt(va * vb)

\* np.array(stored) - current raises ValueError on a shape mismatch
ShapeMismatch(a, b) == Len(a) # Len(b)

(***************************************************************************)
(* Landmark vectors.  A landmark vector is a sequence of blocks, each      *)
(* block standing for LmBlock consecutive coordinates of equal value, so   *)
(* len() of the vector is LmBlock * Len and a prefix of min_len            *)
(* coordinates is a prefix of blocks.                                      *)
(***************************************************************************)
LmBlock == 24

LmLen(lm) == LmBlock * Len(lm)

\* 1 - distance.cosine(current[:min_len], stored[:min_len])
LandmarkSimilarity(cur, stored) ==
    LET n == Min(Len(cur), Len(stored))
    IN  CosineSimilarity(SubSeq(cur, 1, n), SubSeq(stored, 1, n))

(***************************************************************************)
(* The verdict of a scorer: (is_match, confidence, details), with the      *)
(* counters the scorer kept and whether the call raised.                   *)
(***************************************************************************)
Verdict(m, c, d, counted, hq, raised) ==
    [ is_match |-> m, confidence |-> c, details |-> d,
      counted |-> counted, high_quality |-> hq, raised |-> raised ]

(***************************************************************************)
(* AdvancedFaceRecognitionService.advanced_face_comparison                 *)
(***************************************************************************)
\* lines 199-236: the score of one stored descriptor
AdvComparisonScore(euclidean_dist, cosine_raw, correlation_raw) ==
    LET euclidean_score ==
            Max(0, One - (euclidean_dist * One) \div ADVANCED_CONFIG.max_euclidean_distance)
        cosine_sim == Max(0, IF IsNaN(cosine_raw) THEN 500 ELSE cosine_raw)
        correlation == Max(0, IF IsNaN(correlation_raw) THEN 500 ELSE correlation_raw)
        combined_score == (euclidean_score * 5 + cosine_sim * 3 + correlation * 2) \div 10
        bonus_applied ==
            (IF euclidean_dist <= 350 THEN 20 ELSE 0)
            + (IF euclidean_dist <= ADVANCED_CONFIG.base_tolerance /\ cosine_sim >= 750
               THEN 15 ELSE 0)
            + (IF euclidean_dist <= 300 THEN 30 ELSE 0)
    IN  Min(combined_score + bonus_applied, One)

\* lines 259-263: the score of one environmental adaptation, << >> when dropped
AdvAdaptationScore(adapt_dist) ==
    IF adapt_dist <= ADVANCED_CONFIG.max_tolerance
    THEN LET adapt_score ==
                 Max(0, One - (adapt_dist * One) \div ADVANCED_CONFIG.max_tolerance)
         IN  IF adapt_score >= 600 THEN << adapt_score >> ELSE << >>
    ELSE << >>

\* lines 276-280
AdvDistancePenalty(all_distances) ==
    IF Len(all_distances) > 1
    THEN LET distance_std == Std(all_distances)
         IN  IF distance_std > ADVANCED_CONFIG.consistency_threshold
             THEN Min(distance_std \div 10, 50)
             ELSE 0
    ELSE 0

\* lines 283-308
AdvLandmarkBonus(stored_landmarks, current_landmarks) ==
    IF current_landmarks # None /\ stored_landmarks # << >> /\ ADVANCED_CONFIG.use_landmarks
    THEN LET usable == SelectSeq(stored_landmarks,
                           LAMBDA lm : lm # None
                                       /\ Min(LmLen(current_landmarks), LmLen(lm)) > 60)
             sims == [i \in 1..Len(usable) |->
                          LandmarkSimilarity(current_landmarks, usable[i])]
             landmark_similarities ==
                 SelectSeq(sims, LAMBDA x : ~IsNaN(x) /\ x >= 500)
         IN  IF landmark_similarities # << >>
             THEN LET landmark_score == Mean(landmark_similarities)
                  IN  IF landmark_score >= ADVANCED_CONFIG.min_landmark_similarity
                      THEN Min((landmark_score * 30) \div One, 30)
                      ELSE 0
             ELSE 0
    ELSE 0

\* lines 316-320
AdvQualityBonus(excellent_matches, high_quality_matches) ==
    (IF excellent_matches > 0 THEN 20 * excellent_matches ELSE 0)
    + (IF high_quality_matches > 0 THEN 10 * high_quality_matches ELSE 0)

\* the sum of line 324 without the clamps of lines 323-327
AdvFinalConfidence_Unclamped(base_confidence, landmark_bonus, quality_bonus, distance_penalty) ==
    base_confidence + landmark_bonus + quality_bonus - distance_penalty

\* lines 323-327
AdvFinalConfidence(base_confidence, landmark_bonus, quality_bonus, distance_penalty) ==
    Max(0, Min(base_confidence + landmark_bonus + quality_bonus - distance_penalty, One))

\* the verdict of lines 332-335 without the confidence floor
AdvIsMatch_NoFloor(final_confidence, acceptable_matches) ==
    acceptable_matches >= ADVANCED_CONFIG.min_matches

\* lines 332-335
AdvIsMatch(final_confidence, acceptable_matches) ==
    /\ final_confidence >= ADVANCED_CONFIG.min_confidence
    /\ acceptable_matches >= ADVANCED_CONFIG.min_matches

\* lines 161-166: the stored descriptors, or << >> when there are none
AdvStoredEncodings(stored_data) == Get(stored_data, "encodings", << >>)

advanced_face_comparison(stored_data, current_encoding, current_landmarks) ==
    LET stored_encodings == AdvStoredEncodings(stored_data)
        stored_landmarks == Get(stored_data, "landmarks", << >>)
        environmental_adaptations == Get(stored_data, "environmental_adaptations", << >>)
        compared == SelectSeq(stored_encodings, LAMBDA e : e # None)
        all_distances == [i \in 1..Len(compared) |->
                              face_distance(compared[i], current_encoding)]
        Count(limit) == Len(SelectSeq(all_distances, LAMBDA d : d <= limit))
        excellent_matches == Count(350)
        high_quality_matches == Count(ADVANCED_CONFIG.base_tolerance)
        acceptable_matches == Count(ADVANCED_CONFIG.max_tolerance)
        encoding_scores ==
            [i \in 1..Len(compared) |->
                 AdvComparisonScore(all_distances[i],
                                    CosineSimilarity(compared[i], current_encoding),
                                    corrcoef(compared[i], current_encoding))]
        adaptations == SelectSeq(Flatten(environmental_adaptations),
                                 LAMBDA a : "encoding" \in DOMAIN a
                                            /\ ~ShapeMismatch(a.encoding, current_encoding))
        adaptation_scores ==
            Flatten([i \in 1..Len(adaptations) |->
                         AdvAdaptationScore(face_distance(adaptations[i].encoding,
                                                          current_encoding))])
        all_scores == encoding_scores \o adaptation_scores
        sorted_scores == SortDesc(all_scores)
        top_scores == SubSeq(sorted_scores, 1, Min(3, Len(sorted_scores)))
        final_confidence ==
            AdvFinalConfidence(Mean(top_scores),
                               AdvLandmarkBonus(stored_landmarks, current_landmarks),
                               AdvQualityBonus(excellent_matches, high_quality_matches),
                               AdvDistancePenalty(all_distances))
    IN  IF stored_encodings = << >>
        THEN Verdict(FALSE, 0, "Sin datos de rostro registrados", 0, 0, FALSE)
        ELSE IF \E i \in 1..Len(compared) : ShapeMismatch(compared[i], current_encoding)
        THEN \* caught by the except clause of lines 347-349
             Verdict(FALSE, 0, "Error de comparacion", 0, 0, FALSE)
        ELSE IF all_scores = << >>
        THEN Verdict(FALSE, 0, "No se encontraron coincidencias validas", 0, 0, FALSE)
        ELSE IF acceptable_matches < ADVANCED_CONFIG.min_matches
        THEN Verdict(FALSE, 0, "Insuficientes matches aceptables",
                     acceptable_matches, high_quality_matches, FALSE)
        ELSE Verdict(AdvIsMatch(final_confidence, acceptable_matches), final_confidence,
                     "Confianza", acceptable_matches, high_quality_matches, FALSE)

(***************************************************************************)
(* views.intelligent_face_comparison                                       *)
(***************************************************************************)
\* the combination of lines 298-302 with weights that do not sum to one
SmartComparisonScore_Weights(euclidean_dist, cosine_sim, correlation, quick_mode) ==
    IF quick_mode THEN One - euclidean_dist
    ELSE IF IsNaN(cosine_sim) \/ IsNaN(correlation) THEN NaN
    ELSE ((One - euclidean_dist) * 50 + cosine_sim * 25 + correlation * 15) \div 100

\* lines 298-302 and 308: the score of one stored descriptor (NaN is kept)
SmartComparisonScore(euclidean_dist, cosine_sim, correlation, quick_mode) ==
    IF quick_mode THEN One - euclidean_dist
    ELSE IF IsNaN(cosine_sim) \/ IsNaN(correlation) THEN NaN
    ELSE ((One - euclidean_dist) * 60 + cosine_sim * 25 + correlation * 15) \div 100

\* line 305 (a comparison with NaN is false)
SmartIsHighQuality(score) == ~IsNaN(score) /\ score > 500

\* line 354: np.percentile(all_scores, 60), linear interpolation
Percentile60(scores) ==
    IF \E i \in 1..Len(scores) : IsNaN(scores[i]) THEN NaN
    ELSE LET desc == SortDesc(scores)
             n == Len(scores)
             asc == [i \in 1..n |-> desc[n + 1 - i]]
             pos == 6 * (n - 1)
             lo == pos \div 10 + 1
             hi == Min(lo + 1, n)
         IN  asc[lo] + ((asc[hi] - asc[lo]) * (pos % 10)) \div 10

\* lines 319-343: TRUE when the landmark geometry rejects the capture
SmartLandmarkVeto(stored_landmarks, current_landmarks) ==
    IF current_landmarks # None /\ stored_landmarks # << >>
    THEN LET usable == SelectSeq(stored_landmarks,
                           LAMBDA lm : lm # None
                                       /\ Min(LmLen(current_landmarks), LmLen(lm)) > 100)
             landmark_similarities ==
                 [i \in 1..Len(usable) |-> LandmarkSimilarity(current_landmarks, usable[i])]
             landmark_score ==
                 IF \E i \in 1..Len(usable) : IsNaN(landmark_similarities[i])
                 THEN NaN ELSE Mean(landmark_similarities)
         IN  /\ landmark_similarities # << >>
             /\ SMART_CONFIG.strict_mode
             /\ ~(~IsNaN(landmark_score) /\ landmark_score > 650)
    ELSE FALSE

\* lines 350-354
SmartFinalScore(high_quality_scores, all_scores) ==
    IF SMART_CONFIG.strict_mode /\ high_quality_scores # << >>
    THEN Mean(high_quality_scores)
    ELSE Percentile60(all_scores)

\* lines 357-367
SmartIsMatch(final_score) ==
    LET tolerance == IF SMART_CONFIG.strict_mode THEN SMART_CONFIG.base_tolerance
                     ELSE SMART_CONFIG.max_tolerance
    IN  /\ ~IsNaN(final_score)
        /\ final_score >= One - tolerance
        /\ final_score >= SMART_CONFIG.min_confidence

\* line 368: min(1.0, final_score); Python's min keeps 1.0 against NaN
SmartConfidence(final_score) == IF IsNaN(final_score) THEN One ELSE Min(One, final_score)

\* lines 313-315
SmartEnoughMatches(high_quality_scores) ==
    ~(SMART_CONFIG.strict_mode /\ Len(high_quality_scores) < SMART_CONFIG.min_matches)

\* lines 270-271
SmartLandmarksRequired(current_landmarks) ==
    SMART_CONFIG.strict_mode /\ current_landmarks = None

\* the outcome of an expression that reads a stored list: its value, or raised
Looked(v) == [ raised |-> FALSE, value |-> v ]
Raised == [ raised |-> TRUE, value |-> << >> ]

\* stored_data['encodings']: KeyError when the key is missing
SmartStoredEncodings_Index(stored_data) ==
    IF "encodings" \in DOMAIN stored_data THEN Looked(stored_data.encodings) ELSE Raised

\* line 262: stored_data.get('encodings', [])
SmartStoredEncodings(stored_data) == Looked(Get(stored_data, "encodings", << >>))

intelligent_face_comparison(stored_data, current_encoding, current_landmarks, quick_mode) ==
    LET lookup == SmartStoredEncodings(stored_data)
        stored_encodings == lookup.value
        stored_landmarks == Get(stored_data, "landmarks", << >>)
        present == SelectSeq(stored_encodings, LAMBDA e : e # None)
        \* line 287: in strict mode a stored descriptor farther than 0.6 is skipped
        compared == SelectSeq(present,
                        LAMBDA e : ~(SMART_CONFIG.strict_mode
                                     /\ face_distance(e, current_encoding) > 600))
        all_scores ==
            [i \in 1..Len(compared) |->
                 SmartComparisonScore(face_distance(compared[i], current_encoding),
                                      CosineSimilarity(compared[i], current_encoding),
                                      corrcoef(compared[i], current_encoding),
                                      quick_mode)]
        high_quality_scores ==
            IF quick_mode THEN << >> ELSE SelectSeq(all_scores, SmartIsHighQuality)
        final_score == SmartFinalScore(high_quality_scores, all_scores)
        hq == Len(high_quality_scores)
    IN  IF lookup.raised
        THEN Verdict(FALSE, 0, "KeyError", 0, 0, TRUE)
        ELSE IF stored_encodings = << >>
        THEN Verdict(FALSE, 0, "Sin datos de rostro", 0, 0, FALSE)
        ELSE IF SmartLandmarksRequired(current_landmarks)
        THEN Verdict(FALSE, 0, "No se detectaron puntos faciales", 0, 0, FALSE)
        ELSE IF \E i \in 1..Len(present) : ShapeMismatch(present[i], current_encoding)
        THEN \* the ValueError of line 284 leaves the function
             Verdict(FALSE, 0, "ValueError", 0, 0, TRUE)
        ELSE IF ~SmartEnoughMatches(high_quality_scores)
        THEN Verdict(FALSE, 0, "Insuficientes coincidencias", hq, hq, FALSE)
        ELSE IF SmartLandmarkVeto(stored_landmarks, current_landmarks)
        THEN Verdict(FALSE, 0, "Geometria facial no coincide", hq, hq, FALSE)
        ELSE IF all_scores = << >>
        THEN Verdict(FALSE, 0, "No hay coincidencias", hq, hq, FALSE)
        ELSE IF ~IsNaN(final_score) /\ final_score < SMART_CONFIG.min_confidence
        THEN Verdict(FALSE, final_score, "Confianza insuficiente", hq, hq, FALSE)
        ELSE Verdict(SmartIsMatch(final_score), SmartConfidence(final_score),
                     "Score", hq, hq, FALSE)

(***************************************************************************)
(* Inputs of the scorers.                                                  *)
(***************************************************************************)
vA == << 50, -40, 20 >>
\* at distance 0.20, 0.40, 0.55 and 0.70 of vA
vB == << 30, -40, 20 >>
vC == << 10, -40, 20 >>
vD == << -5, -40, 20 >>
vE == << -20, -40, 20 >>
\* degenerate descriptors: zero norm, zero variance
vZero == << 0, 0, 0 >>
vConst == << 30, 30, 30 >>
\* a stored list of the wrong length (a corrupted gallery entry)
vBad == << 10, 20 >>
\* 0.3 * vA: cosine and correlation 1 with vA, at distance 0.47 of it
vScaled == << 15, -12, 6 >>
\* 0.9 * vA and 1.3 * vA: on the ray of vA, at distance 0.067 and 0.201 of it
vNear == << 45, -36, 18 >>
vFar == << 65, -52, 26 >>

Descriptors == { vA, vB, vC, vD, vE, vZero, vConst }
LiveDescriptors == { vA, vB, vZero, vConst, vScaled, vNear }
GalleryEntries == { vA, vB, vD, vE, vBad }

\* 120 coordinates; lmB at cosine 0.2 of lmA, lmC at 0.644; lmShort has 96
lmA == << 5, 3, 4, 2, 6 >>
lmB == << 5, 3, 4, 2, -6 >>
lmC == << 5, 3, -4, 2, 6 >>
lmShort == << 5, 3, 4, 2 >>
\* 96 coordinates, at cosine 0.259 of the first 96 of lmA and of lmB
lmShortFar == << 5, 3, -4, -2 >>

StoredLandmarkEntries == { lmA, lmB }
LiveLandmarks == { None, lmA, lmC, lmShort, lmShortFar }

SeqsUpTo(S, n) == UNION { [1..k -> S] : k \in 0..n }

Copies(v, k) == [i \in 1..k |-> v]

ScorerEncodings ==
    SeqsUpTo(GalleryEntries, MaxEnc)
    \cup { Copies(v, k) : v \in Descriptors, k \in 1..MaxCopies }
    \cup { << None >>, << None, vA >> }

ScorerLandmarks ==
    SeqsUpTo(StoredLandmarkEntries, MaxStoredLm) \cup { << None >> }

Adaptation(enc, name) == [ encoding |-> enc, condition |-> name ]

ScorerAdaptations ==
    { << >>,
      << << Adaptation(vA, "indoor_standard"), Adaptation(vA, "outdoor_bright"),
            Adaptation(vB, "low_light") >> >>,
      << << Adaptation(vFar, "low_light") >> >>,
      << << [ condition |-> "low_light" ], Adaptation(vBad, "indoor_standard") >> >> }

\* the stored JSON of a gallery; the 'encodings' key may be missing
ScorerGalleries ==
    { [ encodings |-> e, landmarks |-> l, environmental_adaptations |-> a ] :
          e \in ScorerEncodings, l \in ScorerLandmarks, a \in ScorerAdaptations }
    \cup { [ landmarks |-> l ] : l \in ScorerLandmarks }

(***************************************************************************)
(* Photos.  A photo is what the external primitives return for the image:  *)
(* whether the HOG and the CNN localizer find a face, whether the face     *)
(* passes verify_face_quality, and the descriptor and landmark vector      *)
(* extracted from it (None when the primitive returns nothing).  The       *)
(* primitives are taken as functions of the image (the jitter of           *)
(* face_encodings is not modelled).                                        *)
(* Two more attributes matter to AdvancedFaceRecognitionService: measures, *)
(* what detect_image_quality measures on the image, and small, the image   *)
(* is smaller than a face can be (50 x 50 pixels).                         *)
(***************************************************************************)
\* the measurements of detect_image_quality, lines 74-96, in thousandths:
\* min(laplacian_var / 30, 1), the mean brightness, min(contrast_std / 50, 1)
\* and max(0, 1 - noise_level / 50)
Measures(blur_score, brightness, contrast_score, noise_score) ==
    [ blur_score |-> blur_score, brightness |-> brightness,
      contrast_score |-> contrast_score, noise_score |-> noise_score ]

\* a sharp, well lit image; a black frame; a dark, flat and blurred image
Sharp == Measures(1000, 500, 1000, 0)
Black == Measures(0, 0, 0, 1000)
Murky == Measures(100, 100, 100, 900)
\* an overexposed image
Glare == Measures(150, 980, 120, 880)

\* a brightness score that goes down to 0.1 for an extreme brightness
BrightnessScore_Low(brightness) ==
    IF brightness < 150 \/ brightness > 950 THEN 100
    ELSE IF brightness < 250 \/ brightness > 850 THEN 800
    ELSE 1000

\* lines 82-88
BrightnessScore(brightness) ==
    IF brightness < 150 \/ brightness > 950 THEN 500
    ELSE IF brightness < 250 \/ brightness > 850 THEN 800
    ELSE 1000

\* AdvancedFaceRecognitionService.detect_image_quality; measures = None when
\* a measurement raises (lines 122-131)
detect_image_quality(measures) ==
    IF measures = None
    THEN [ overall_quality |-> 300, is_acceptable |-> TRUE ]
    ELSE LET brightness_score == BrightnessScore(measures.brightness)
             quality_score ==
                 (measures.blur_score * 3 + brightness_score * 4
                  + measures.contrast_score * 2 + measures.noise_score * 1) \div 10
         IN  [ overall_quality |-> quality_score,
               is_acceptable |->
                   /\ quality_score >= ADVANCED_CONFIG.quality_threshold
                   /\ measures.blur_score >= 200
                   /\ brightness_score >= 300
                   /\ measures.contrast_score >= 150 ]

Photo(hog, cnn, full, enc, lm) ==
    [ hog |-> hog, cnn |-> cnn, full_face |-> full,
      encoding |-> enc, landmarks |-> lm, measures |-> Sharp, small |-> FALSE ]

\* at distance 0.52 of vA
vF == << -2, -40, 20 >>

pA == Photo(TRUE, TRUE, TRUE, vA, lmA)
pB == Photo(TRUE, TRUE, TRUE, vB, lmA)
pF == Photo(FALSE, TRUE, TRUE, vF, lmA)
pNoFace == Photo(FALSE, FALSE, FALSE, None, None)
\* request.data.get('photo') is empty
NoPhoto == Photo(FALSE, FALSE, FALSE, None, None)

\* a sharp face is missing: blurred, and part of the face is covered
pPoor == [ Photo(TRUE, TRUE, FALSE, vA, lmA) EXCEPT !.measures = Murky ]

VerifyPhotos == { pA, pF, pNoFace, pPoor }

\* a black frame, and a dark and blurred image in which a face is located
pBlack == [ Photo(FALSE, FALSE, FALSE, None, None) EXCEPT !.measures = Black ]
pDark == [ Photo(TRUE, TRUE, FALSE, vB, lmA) EXCEPT !.measures = Murky ]
\* the face of pA, overexposed
pGlare == [ pA EXCEPT !.measures = Glare ]
\* a face is located but face_encodings returns nothing
pNoEncoding == Photo(TRUE, TRUE, TRUE, None, lmA)
\* 50 x 50 pixels, sharp and well lit: no localizer finds a face in the one,
\* the CNN localizer finds the face that fills the other
pSmall == [ Photo(FALSE, FALSE, FALSE, None, None) EXCEPT !.small = TRUE ]
pSmallFace == [ Photo(FALSE, TRUE, FALSE, vB, None) EXCEPT !.small = TRUE ]

EnrollPhotos ==
    { pA, pNoFace, pBlack, pDark, pGlare, pNoEncoding, pSmall, pSmallFace }

\* the photo lists submitted to enrollment
RegistrationPhotoLists ==
    { Copies(pA, 5), Copies(pB, 5), << pA, pA, pNoFace, pA, pNoFace >>,
      Copies(pNoFace, 5), Copies(pA, 4) }

(***************************************************************************)
(* views.process_registration_photos                                       *)
(***************************************************************************)
\* lines 415-470: the localization fallback chain finds a face
RegistrationFaceFound(photo) == photo.hog \/ photo.cnn

\* lines 476-508: the descriptor of one photo, None when it has none
RegistrationEncoding(photo) ==
    IF RegistrationFaceFound(photo) THEN photo.encoding ELSE None

\* lines 511-519: the landmark vector of one photo with a face, else None
RegistrationLandmarks(photo) ==
    IF RegistrationFaceFound(photo) THEN photo.landmarks ELSE None

\* lines 522-530: the augmented descriptors of one photo
RegistrationAugmented(photo) ==
    IF RegistrationEncoding(photo) # None /\ SMART_CONFIG.use_augmentation
    THEN << photo.encoding >> ELSE << >>

\* the primitives the loop body calls on one photo, in order
RegistrationCalls(photo) ==
    << "face_locations" >>
    \o (IF RegistrationFaceFound(photo)
        THEN << "face_encodings", "extract_face_landmarks" >> ELSE << >>)

\* lines 462-470, 505-508, 536-543: the photos appended to failed_photos
RegistrationFailed(photos) ==
    Flatten([i \in 1..Len(photos) |->
                 IF RegistrationEncoding(photos[i]) = None THEN << i >> ELSE << >>])

process_registration_photos(photos) ==
    LET all_encodings == [i \in 1..Len(photos) |-> RegistrationEncoding(photos[i])]
        all_landmarks == [i \in 1..Len(photos) |-> RegistrationLandmarks(photos[i])]
        all_augmented == [i \in 1..Len(photos) |-> RegistrationAugmented(photos[i])]
        valid_encodings == SelectSeq(all_encodings, LAMBDA e : e # None)
    IN  [ encodings |-> valid_encodings,
          landmarks |-> SelectSeq(all_landmarks, LAMBDA l : l # None),
          augmented |-> SelectSeq(all_augmented, LAMBDA a : a # << >>),
          valid_photos |-> Len(valid_encodings),
          total_photos |-> Len(photos),
          failed_photos |-> RegistrationFailed(photos) ]

(***************************************************************************)
(* AdvancedFaceRecognitionService.process_advanced_registration            *)
(***************************************************************************)
\* lines 508-518: the photo is dropped for its quality
AdvRegistrationRejected(photo) ==
    LET quality_info == detect_image_quality(photo.measures)
    IN  ~quality_info.is_acceptable /\ quality_info.overall_quality < 150

\* advanced_verify, lines 687-695: the photo is refused for its quality
AdvVerifyRejected(photo) ==
    detect_image_quality(photo.measures).overall_quality
        < ADVANCED_CONFIG.min_quality_for_verification

\* lines 520-563: a face of sufficient area is located
AdvRegistrationFaceFound(photo) == photo.hog \/ photo.cnn

\* the reason appended to failed_reasons for one photo, "" when there is none
AdvRegistrationReason(photo) ==
    IF AdvRegistrationRejected(photo) THEN "Calidad extremadamente baja"
    ELSE IF ~AdvRegistrationFaceFound(photo) THEN "No se detecto rostro valido"
    ELSE IF photo.encoding = None THEN "Fallo en extraccion de caracteristicas"
    ELSE ""

\* lines 573-589: the descriptor appended for one photo, None when it has none
AdvRegistrationEncoding(photo) ==
    IF AdvRegistrationReason(photo) = "" THEN photo.encoding ELSE None

\* lines 591-599: landmarks are extracted whenever a face was located
AdvRegistrationLandmarks(photo) ==
    IF ~AdvRegistrationRejected(photo) /\ AdvRegistrationFaceFound(photo)
       /\ ADVANCED_CONFIG.use_landmarks
    THEN photo.landmarks ELSE None

\* lines 601-617: the environmental adaptations of one photo
AdvRegistrationAdaptations(photo) ==
    IF AdvRegistrationEncoding(photo) # None /\ ADVANCED_CONFIG.use_environmental_adaptation
    THEN << Adaptation(photo.encoding, "indoor_standard") >> ELSE << >>

\* the primitives the loop body calls on one photo, in order
AdvRegistrationCalls(photo) ==
    << "detect_image_quality" >>
    \o (IF AdvRegistrationRejected(photo) THEN << >>
        ELSE << "face_locations" >>
             \o (IF AdvRegistrationFaceFound(photo)
                 THEN << "face_encodings", "extract_detailed_landmarks" >> ELSE << >>))

\* a minimum that asks for every one of the min_photos photos
AdvMinRequired_AllPhotos == ADVANCED_CONFIG.min_photos

\* line 642
AdvMinRequired == Max(3, ADVANCED_CONFIG.min_photos - 2)

process_advanced_registration(photos) ==
    LET n == Len(photos)
        all_encodings == [i \in 1..n |-> AdvRegistrationEncoding(photos[i])]
        all_landmarks == [i \in 1..n |-> AdvRegistrationLandmarks(photos[i])]
        all_environmental_adaptations ==
            [i \in 1..n |-> AdvRegistrationAdaptations(photos[i])]
        failed_reasons ==
            Flatten([i \in 1..n |->
                         IF AdvRegistrationReason(photos[i]) = "" THEN << >>
                         ELSE << [ photo |-> i,
                                   reason |-> AdvRegistrationReason(photos[i]) ] >>])
        valid_encodings == SelectSeq(all_encodings, LAMBDA e : e # None)
    IN  IF Len(valid_encodings) < AdvMinRequired
        THEN [ success |-> FALSE, error |-> "Se necesitan mas fotos validas",
               encodings |-> << >>, landmarks |-> << >>,
               environmental_adaptations |-> << >>,
               valid_photos |-> Len(valid_encodings), total_photos |-> n,
               failed_reasons |-> failed_reasons ]
        ELSE [ success |-> TRUE, error |-> "",
               encodings |-> valid_encodings,
               landmarks |-> SelectSeq(all_landmarks, LAMBDA l : l # None),
               environmental_adaptations |->
                   SelectSeq(all_environmental_adaptations, LAMBDA a : a # << >>),
               valid_photos |-> Len(valid_encodings), total_photos |-> n,
               failed_reasons |-> failed_reasons ]

\* the JSON stored in Employee.face_encoding
StoredGallery(face_data) ==
    [ encodings |-> face_data.encodings, landmarks |-> face_data.landmarks,
      augmented |-> face_data.augmented ]

\* a gallery that keeps the entries of the previous one before the new ones
RegisteredGallery_Merged(previous, face_data) ==
    [ encodings |-> Get(previous, "encodings", << >>) \o face_data.encodings,
      landmarks |-> Get(previous, "landmarks", << >>) \o face_data.landmarks,
      augmented |-> Get(previous, "augmented", << >>) \o face_data.augmented ]

\* register_employee_face lines 891-895: the JSON that replaces the previous one
RegisteredGallery(previous, face_data) == StoredGallery(face_data)

\* Employee.face_encoding is null
NoFaceEncoding == [ null |-> TRUE ]

\* create_employee line 761, register_employee_face line 863
min_valid_required == 3

(***************************************************************************)
(* Employees.  Employee.rut is unique and the views never set it, so it is *)
(* '' (0 here) for an employee made by create_employee; employees that     *)
(* exist before hold distinct RUTs.                                        *)
(***************************************************************************)
Employee(name, rut, registered, gallery) ==
    [ name |-> name, rut |-> rut, is_active |-> TRUE,
      has_face_registered |-> registered, face_encoding |-> gallery,
      face_registration_date |-> 0,
      face_quality_score |-> IF registered THEN One ELSE 0 ]

\* Employee.face_registration_date, kept as the rank of the enrollment among
\* the enrollments of the table (1 is the earliest, 0 is null)
Dated(table) == { e \in DOMAIN table : table[e].face_registration_date > 0 }

\* timezone.now() at an enrollment of employee id: later than every other date
timezone_now(table, id) == Cardinality(Dated(table) \ { id }) + 1

\* the table once the date of employee id is gone: later dates move up a rank
WithoutDate(table, id) ==
    [ e \in DOMAIN table |->
        IF id \in Dated(table)
           /\ table[e].face_registration_date > table[id].face_registration_date
        THEN [ table[e] EXCEPT !.face_registration_date = @ - 1 ]
        ELSE table[e] ]

\* an employee enrolled at the date of the given rank
EnrolledAt(employee, date) == [ employee EXCEPT !.face_registration_date = date ]

\* names, by their rank in the ordering of Employee.Meta
Names == { 1, 2 }

\* the unique constraint on rut rejects a second ''
RutTaken(table, rut) == \E e \in DOMAIN table : table[e].rut = rut

\* the employees whose stored gallery holds the descriptor of one of the photos
DuplicatesOf(table, photos) ==
    { e \in DOMAIN table :
          /\ table[e].has_face_registered
          /\ "encodings" \in DOMAIN table[e].face_encoding
          /\ \E i \in 1..Len(photos), j \in 1..Len(table[e].face_encoding.encodings) :
                 /\ RegistrationEncoding(photos[i]) # None
                 /\ table[e].face_encoding.encodings[j] = RegistrationEncoding(photos[i]) }

\* create_employee lines 740-822: the HTTP status of the call
CreateEmployeeStatus(table, photos) ==
    IF Len(photos) < SMART_CONFIG.min_photos THEN 400
    ELSE IF process_registration_photos(photos).valid_photos < min_valid_required THEN 400
    ELSE IF RutTaken(table, 0) THEN 500
    ELSE 200

\* the status of register_employee_face without the check of lines 863-872
RegisterFaceStatus_NoCount(table, id, photos) ==
    IF Len(photos) < SMART_CONFIG.min_photos THEN 400
    ELSE IF id \notin DOMAIN table \/ ~table[id].is_active THEN 404
    ELSE 200

\* register_employee_face lines 840-927: the HTTP status of the call
RegisterFaceStatus(table, id, photos) ==
    IF Len(photos) < SMART_CONFIG.min_photos THEN 400
    ELSE IF id \notin DOMAIN table \/ ~table[id].is_active THEN 404
    ELSE IF process_registration_photos(photos).valid_photos < min_valid_required THEN 400
    ELSE 200

(***************************************************************************)
(* Verification: the worker task (verify_process) and its caller.          *)
(***************************************************************************)
\* most employees that ever exist, attendance records kept, and the longest
\* wait (in half seconds) of a submitted task before it records its start
MaxEmployees == 2
MaxAttendance == 1
MaxStartDelay == 2

\* the instants, in half seconds, at which the clock is read: they fall on
\* either side of every deadline of the two verify_process functions
Instants == << 0, 2, 10, 15, 17, 19, 20, 22, 24, 26 >>
HasNextInstant(t) == \E i \in DOMAIN Instants : Instants[i] > t
NextInstant(t) ==
    Instants[CHOOSE i \in DOMAIN Instants :
                 /\ Instants[i] > t
                 /\ \A j \in DOMAIN Instants : Instants[j] > t => i <= j]

NoError == ""
\* views.py line 718 and face_recognition_utils.py line 857
ViewsTimeoutError == "Timeout: La verificacion excedio los 10 segundos"
AdvancedTimeoutError == "TIMEOUT: Verificacion cancelada por tiempo excedido"

TimeoutOf(impl) == IF impl = "views" THEN SMART_CONFIG.verification_timeout
                   ELSE ADVANCED_CONFIG.verification_timeout

\* result['data'] of a worker, and None
Data(best_match, best_confidence, all_results) ==
    [ present |-> TRUE, best_match |-> best_match,
      best_confidence |-> best_confidence, all_results |-> all_results ]
NoData == [ present |-> FALSE, best_match |-> 0, best_confidence |-> 0,
            all_results |-> << >> ]

\* what verify_process returns
Success(data) == [ success |-> TRUE, data |-> data, error |-> NoError ]
Failure(error) == [ success |-> FALSE, data |-> NoData, error |-> error ]
NoResult == [ success |-> FALSE, data |-> NoData, error |-> NoError ]

\* one entry of all_results
Scored_(employee, confidence, match) ==
    [ employee |-> employee, confidence |-> confidence, match |-> match ]

\* the query of either verify_process that reads every employee of the table
QueryRows_Everyone(table) ==
    LET ids == DOMAIN table
        orders == { o \in [1..Cardinality(ids) -> ids] :
                        /\ \A i, j \in DOMAIN o : i # j => o[i] # o[j]
                        /\ \A i, j \in DOMAIN o :
                               i < j => table[o[i]].name <= table[o[j]].name }
    IN  { [i \in DOMAIN o |-> [ id |-> o[i], face_encoding |-> table[o[i]].face_encoding ]] :
              o \in orders }

\* Employee.objects.filter(is_active=True, has_face_registered=True), in the
\* order of Meta.ordering = ['name']; rows of equal name come in any order
QueryRows(table) ==
    LET ids == { e \in DOMAIN table :
                     table[e].is_active /\ table[e].has_face_registered }
        orders == { o \in [1..Cardinality(ids) -> ids] :
                        /\ \A i, j \in DOMAIN o : i # j => o[i] # o[j]
                        /\ \A i, j \in DOMAIN o :
                               i < j => table[o[i]].name <= table[o[j]].name }
    IN  { [i \in DOMAIN o |-> [ id |-> o[i], face_encoding |-> table[o[i]].face_encoding ]] :
              o \in orders }

\* the state of a worker
IdleWorker ==
    [ pc |-> "none", start |-> 0, found |-> FALSE, encoding |-> None,
      landmarks |-> None, rows |-> << >>, best_match |-> 0, best_confidence |-> 0,
      all_results |-> << >>, result |-> NoResult, deadline_hit |-> FALSE ]

\* the state of a verification call
IdleCall == [ impl |-> "none", photo |-> NoPhoto, pc |-> "idle", submit_time |-> 0 ]

\* views.py lines 656-673: the quick comparison of one employee near the deadline.
\* The worker with its new (best_match, best_confidence, all_results); an
\* exception (a descriptor of another length) leaves them as they were.
QuickUpdate(w, row, current_encoding_) ==
    LET stored == row.face_encoding
        encs == Get(stored, "encodings", << >>)
        confidence == One - face_distance(encs[1], current_encoding_)
        better == confidence > w.best_confidence
    IN  IF encs = << >> THEN w
        ELSE IF encs[1] = None \/ ShapeMismatch(encs[1], current_encoding_) THEN w
        ELSE IF confidence > 450
        THEN [ w EXCEPT
                 !.all_results = Append(@, Scored_(row.id, confidence, confidence > 500)),
                 !.best_confidence = IF better THEN confidence ELSE @,
                 !.best_match = IF better THEN row.id ELSE @ ]
        ELSE w

\* lines 688-690 and 812-820: the running best after a scorer verdict
BestUpdate(w, row, v) ==
    LET better == v.is_match /\ v.confidence > w.best_confidence
    IN  [ w EXCEPT
            !.all_results = Append(@, Scored_(row.id, v.confidence, v.is_match)),
            !.best_confidence = IF better THEN v.confidence ELSE @,
            !.best_match = IF better THEN row.id ELSE @ ]

\* an employee loop without the try of line 653: the exception leaves the
\* loop and is returned by the except clause of line 705
ViewsIteration_Uncaught(w, row, elapsed, timeout) ==
    IF "null" \in DOMAIN row.face_encoding
    THEN [ w EXCEPT !.pc = "done", !.result = Failure("TypeError") ]
    ELSE IF 10 * elapsed > 7 * timeout
    THEN QuickUpdate(w, row, w.encoding)
    ELSE LET v == intelligent_face_comparison(row.face_encoding, w.encoding,
                                              w.landmarks, FALSE)
         IN  IF v.raised THEN [ w EXCEPT !.pc = "done", !.result = Failure("ValueError") ]
             ELSE BestUpdate(w, row, v)

\* views.py lines 653-694: one iteration of the employee loop
ViewsIteration(w, row, elapsed, timeout) ==
    IF "null" \in DOMAIN row.face_encoding
    THEN \* json.loads(None) raises, the except clause continues
         w
    ELSE IF 10 * elapsed > 7 * timeout
    THEN QuickUpdate(w, row, w.encoding)
    ELSE LET v == intelligent_face_comparison(row.face_encoding, w.encoding,
                                              w.landmarks, FALSE)
         IN  IF v.raised THEN w ELSE BestUpdate(w, row, v)

\* face_recognition_utils.py lines 791-824: one iteration of the employee loop
AdvancedIteration(w, row) ==
    IF "null" \in DOMAIN row.face_encoding
    THEN w
    ELSE BestUpdate(w, row, advanced_face_comparison(row.face_encoding, w.encoding,
                                                     w.landmarks))

\* a handler that answers every failure of the worker with 403
VerifyStatus_ErrorsDenied(data, error) ==
    IF error = ViewsTimeoutError THEN 408
    ELSE IF error # NoError THEN 403
    ELSE IF ~data.present THEN 500
    ELSE IF data.best_match = 0 THEN 403
    ELSE 200

\* verify_attendance_face lines 960-1043: the HTTP status for what the call returned
VerifyStatus(data, error) ==
    IF error = ViewsTimeoutError THEN 408
    ELSE IF error # NoError THEN 400
    ELSE IF ~data.present THEN 500
    ELSE IF data.best_match = 0
    THEN IF data.all_results # << >> THEN 403 ELSE 404
    ELSE 200

\* the response of a verification call, with what the worker went through
Response(op, status, data, error, deadline_hit, timer_fired) ==
    [ op |-> op, status |-> status, data |-> data, error |-> error,
      deadline_hit |-> deadline_hit, timer_fired |-> timer_fired, duplicates |-> {} ]
NoResponse == Response("none", 0, NoData, NoError, FALSE, FALSE)

\* the response of an enrollment endpoint, with the employees already
\* enrolled with a descriptor of the submitted photos
EnrollResponse(op, status, duplicates) ==
    [ Response(op, status, NoData, NoError, FALSE, FALSE)
        EXCEPT !.duplicates = duplicates ]

\* AttendanceRecord.objects.create of lines 1017-1026
AttendanceRecord(employee, face_confidence) ==
    [ employee |-> employee, face_confidence |-> face_confidence ]

NoVerdict == Verdict(FALSE, 0, "", 0, 0, FALSE)

VARIABLES
    \* the arguments of a scorer call
    stored_data, current_encoding, current_landmarks,
    \* which scorer was applied ("none" before the call) and what it returned
    scorer, verdict,
    \* the Employee table (id -> row), the next primary key, the AttendanceRecord table
    employees, next_id, attendance,
    \* time.time(), in half seconds since the verification call in flight began
    now,
    \* the verification call in flight, its worker task, and the response of
    \* the endpoint that answered last
    call, worker, response,
    \* the photo list handed to an enrollment function, and what it returned
    photos_base64, registration

scorer_vars == << stored_data, current_encoding, current_landmarks, scorer, verdict >>
table_vars == << employees, next_id, attendance >>
call_vars == << now, call, worker, response >>
enroll_vars == << photos_base64, registration >>
vars == << scorer_vars, table_vars, call_vars, enroll_vars >>

\* no enrollment function was applied
NoRegistration == [ by |-> "none", result |-> [ success |-> FALSE ], calls |-> << >> ]

EnrollIdle ==
    /\ photos_base64 = << >>
    /\ registration = NoRegistration

\* no call in flight, empty tables
SystemIdle ==
    /\ employees = << >>
    /\ next_id = 1
    /\ attendance = << >>
    /\ now = 0
    /\ call = IdleCall
    /\ worker = IdleWorker
    /\ response = NoResponse

ScorerIdle ==
    /\ stored_data = [ encodings |-> << >> ]
    /\ current_encoding = vA
    /\ current_landmarks = None
    /\ scorer = "none"
    /\ verdict = NoVerdict

ScorerInit ==
    /\ stored_data \in ScorerGalleries
    /\ current_encoding \in LiveDescriptors
    /\ current_landmarks \in LiveLandmarks
    /\ scorer = "none"
    /\ verdict = NoVerdict
    /\ SystemIdle
    /\ EnrollIdle

ScoreAdvanced ==
    /\ scorer = "none"
    /\ scorer' = "advanced"
    /\ verdict' = advanced_face_comparison(stored_data, current_encoding, current_landmarks)
    /\ UNCHANGED << stored_data, current_encoding, current_landmarks, table_vars, call_vars,
                 enroll_vars >>

ScoreIntelligent ==
    /\ scorer = "none"
    /\ \E quick_mode \in BOOLEAN :
           /\ scorer' = IF quick_mode THEN "intelligent_quick" ELSE "intelligent"
           /\ verdict' = intelligent_face_comparison(stored_data, current_encoding,
                                                     current_landmarks, quick_mode)
    /\ UNCHANGED << stored_data, current_encoding, current_landmarks, table_vars, call_vars,
                 enroll_vars >>

ScorerNext == ScoreAdvanced \/ ScoreIntelligent

ScorerSpec == ScorerInit /\ [][ScorerNext]_vars

(***************************************************************************)
(* Claims about the Match Scorer, checked under ScorerSpec.                *)
(***************************************************************************)
Scored == scorer # "none"
ByAdvanced == scorer = "advanced"
BySmart == scorer \in { "intelligent", "intelligent_quick" }

MinConfidenceOf == IF ByAdvanced THEN ADVANCED_CONFIG.min_confidence
                   ELSE SMART_CONFIG.min_confidence
MinMatchesOf == IF ByAdvanced THEN ADVANCED_CONFIG.min_matches
                ELSE SMART_CONFIG.min_matches

\* C1: whenever a scorer returns is_match = true, the confidence it returns is
\* at least min_confidence and the number of comparisons it counted towards
\* min_matches is at least min_matches.
C1_ThresholdConsistency ==
    (Scored /\ verdict.is_match) =>
        /\ verdict.confidence >= MinConfidenceOf
        /\ verdict.counted >= MinMatchesOf

\* a match of the strict scorer whose confidence is below the maximum
C1_Witness ==
    /\ scorer = "intelligent"
    /\ verdict.is_match
    /\ verdict.confidence < One
    /\ verdict.counted = SMART_CONFIG.min_matches

\* C7: the confidence a scorer returns is within [0,1] on every return path.
C7_ConfidenceBounded ==
    Scored => (verdict.confidence >= 0 /\ verdict.confidence <= One)

\* bonuses above a base of one: five excellent comparisons and a landmark bonus
C7_Witness ==
    /\ ByAdvanced
    /\ verdict.confidence = One
    /\ verdict.high_quality = MaxCopies
    /\ current_landmarks = lmA
    /\ Get(stored_data, "landmarks", << >>) = << lmA >>

\* C8: a gallery without stored descriptors (missing or empty 'encodings')
\* yields is_match = false and confidence 0.0 with a message, and no exception.
C8_EmptyGallery ==
    (Scored /\ Get(stored_data, "encodings", << >>) = << >>) =>
        /\ ~verdict.is_match
        /\ verdict.confidence = 0
        /\ verdict.details # ""
        /\ ~verdict.raised

\* the strict scorer applied, with landmarks, to stored data lacking 'encodings'
C8_Witness ==
    /\ scorer = "intelligent"
    /\ "encodings" \notin DOMAIN stored_data
    /\ current_landmarks # None
    /\ verdict.details = "Sin datos de rostro"

\* C9 (as claimed): with fewer than min_matches comparisons of high quality
\* (distance within the stricter tolerance) the verdict is no-match.
C9_MinimumMatchesGate ==
    (Scored /\ verdict.high_quality < MinMatchesOf) => ~verdict.is_match

ComparedEntries ==
    LET adaptations == SelectSeq(Flatten(Get(stored_data, "environmental_adaptations", << >>)),
                                 LAMBDA a : "encoding" \in DOMAIN a)
    IN  SelectSeq(Get(stored_data, "encodings", << >>), LAMBDA e : e # None)
        \o [i \in 1..Len(adaptations) |-> adaptations[i].encoding]

MaxToleranceOf == IF ByAdvanced THEN ADVANCED_CONFIG.max_tolerance
                  ELSE SMART_CONFIG.max_tolerance

\* every entry of the gallery is farther than limit from the live descriptor
AllEntriesBeyond(limit) ==
    /\ ComparedEntries # << >>
    /\ \A i \in 1..Len(ComparedEntries) :
           /\ ~ShapeMismatch(ComparedEntries[i], current_encoding)
           /\ face_distance(ComparedEntries[i], current_encoding) > limit

\* C11: when every entry of the gallery (stored descriptors and environmental
\* variants) is farther than max_tolerance from the live descriptor, the
\* verdict is no-match, whatever the cosine, correlation and landmarks are.
C11_BeyondMaxTolerance ==
    (Scored /\ AllEntriesBeyond(MaxToleranceOf)) => ~verdict.is_match

\* the verdict of the scorer that was applied, for another live descriptor
Rescored(encoding) ==
    IF ByAdvanced
    THEN advanced_face_comparison(stored_data, encoding, current_landmarks)
    ELSE intelligent_face_comparison(stored_data, encoding, current_landmarks,
                                     scorer = "intelligent_quick")

\* encoding is farther than the live descriptor from every entry of the
\* gallery by one and the same positive amount, at the same cosine similarity
\* and the same correlation
UniformlyFarther(encoding) ==
    /\ ComparedEntries # << >>
    /\ \A i \in 1..Len(ComparedEntries) :
           /\ ~ShapeMismatch(ComparedEntries[i], current_encoding)
           /\ CosineSimilarity(ComparedEntries[i], encoding)
                  = CosineSimilarity(ComparedEntries[i], current_encoding)
           /\ corrcoef(ComparedEntries[i], encoding)
                  = corrcoef(ComparedEntries[i], current_encoding)
    /\ LET delta == face_distance(ComparedEntries[1], encoding)
                        - face_distance(ComparedEntries[1], current_encoding)
       IN  /\ delta > 0
           /\ \A i \in 1..Len(ComparedEntries) :
                  face_distance(ComparedEntries[i], encoding)
                      = face_distance(ComparedEntries[i], current_encoding) + delta

\* C12: for a fixed gallery and fixed cosine, correlation and landmark inputs,
\* a live descriptor whose distance to every gallery entry is larger by the
\* same amount does not obtain a higher final confidence.
C12_Monotonicity ==
    Scored =>
        \A encoding \in LiveDescriptors :
            UniformlyFarther(encoding) => Rescored(encoding).confidence <= verdict.confidence

\* the verdict of the scorer that was applied, for another gallery
RescoredWith(gallery) ==
    IF ByAdvanced
    THEN advanced_face_comparison(gallery, current_encoding, current_landmarks)
    ELSE intelligent_face_comparison(gallery, current_encoding, current_landmarks,
                                     scorer = "intelligent_quick")

\* the gallery without its i-th stored descriptor
WithoutEntry(gallery, i) ==
    [ gallery EXCEPT !.encodings =
          SubSeq(@, 1, i - 1) \o SubSeq(@, i + 1, Len(@)) ]

\* the distance beyond which a stored descriptor is "clearly a different
\* person": max_euclidean_distance of ADVANCED_CONFIG, 0.6 in views line 287
HardCeilingOf == IF ByAdvanced THEN ADVANCED_CONFIG.max_euclidean_distance ELSE 600

\* the stored descriptors farther than the hard ceiling from the live one
BeyondCeiling ==
    LET stored_encodings == Get(stored_data, "encodings", << >>)
    IN  { i \in 1..Len(stored_encodings) :
            /\ stored_encodings[i] # None
            /\ ~ShapeMismatch(stored_encodings[i], current_encoding)
            /\ face_distance(stored_encodings[i], current_encoding) > HardCeilingOf }

\* C21: a stored descriptor whose distance to the live descriptor exceeds the
\* hard ceiling is discarded: the verdict and the confidence are those the
\* scorer returns for the gallery without that descriptor.
C21_HardCeilingDiscard ==
    Scored =>
        \A i \in BeyondCeiling :
            /\ RescoredWith(WithoutEntry(stored_data, i)).is_match = verdict.is_match
            /\ RescoredWith(WithoutEntry(stored_data, i)).confidence = verdict.confidence

\* the stored landmark vectors there are
StoredLandmarkVectors ==
    SelectSeq(Get(stored_data, "landmarks", << >>), LAMBDA lm : lm # None)

\* the landmark geometry of the capture is poor: the mean cosine similarity of
\* the live landmark vector and the stored ones is below the threshold
PoorLandmarkGeometry ==
    LET sims == [i \in 1..Len(StoredLandmarkVectors) |->
                     LandmarkSimilarity(current_landmarks, StoredLandmarkVectors[i])]
    IN  /\ \A i \in 1..Len(sims) : ~IsNaN(sims[i])
        /\ Mean(sims) < 650

\* C22: in the strict profile, when there is a live landmark vector and there
\* are stored ones and their similarity is below the landmark threshold, the
\* scorer returns no-match, however high the descriptor score is.
C22_LandmarkVeto ==
    (/\ BySmart
     /\ SMART_CONFIG.strict_mode
     /\ current_landmarks # None
     /\ StoredLandmarkVectors # << >>
     /\ PoorLandmarkGeometry) => ~verdict.is_match

\* the stored descriptors the applied scorer computes a score for
ScoredEntries ==
    LET present == SelectSeq(Get(stored_data, "encodings", << >>), LAMBDA e : e # None)
    IN  IF \E i \in 1..Len(present) : ShapeMismatch(present[i], current_encoding)
        THEN << >>
        ELSE SelectSeq(present,
                 LAMBDA e : ByAdvanced \/ face_distance(e, current_encoding) <= 600)

\* the per-comparison score of the applied scorer
ComparisonScoreOf(euclidean_dist, cosine_sim, correlation) ==
    IF ByAdvanced THEN AdvComparisonScore(euclidean_dist, cosine_sim, correlation)
    ELSE SmartComparisonScore(euclidean_dist, cosine_sim, correlation, FALSE)

\* a metric brought into [0, 1], an undefined one counting as 0
Clamped(x) == IF IsNaN(x) THEN 0 ELSE Max(0, Min(One, x))

\* C23: the score of every gallery comparison is the combination of the
\* metrics brought into [0, 1], a cosine similarity or correlation that is
\* NaN contributing 0, and the confidence returned is not NaN.
C23_DegenerateContributeZero ==
    (Scored /\ scorer # "intelligent_quick") =>
        /\ ~IsNaN(verdict.confidence)
        /\ \A i \in 1..Len(ScoredEntries) :
               LET euclidean_dist == face_distance(ScoredEntries[i], current_encoding)
                   cosine_sim == CosineSimilarity(ScoredEntries[i], current_encoding)
                   correlation == corrcoef(ScoredEntries[i], current_encoding)
               IN  ComparisonScoreOf(euclidean_dist, cosine_sim, correlation)
                       = ComparisonScoreOf(euclidean_dist, Clamped(cosine_sim),
                                           Clamped(correlation))

(***************************************************************************)
(* The service: enrollment endpoints, verification calls, attendance.      *)
(***************************************************************************)
\* migration 0005 gives the one employee that existed before it the RUT
\* '00000000-0' (1 here); that employee has no face registered yet
LegacyEmployees == { << >>, << Employee(2, 1, FALSE, NoFaceEncoding) >> }

Init ==
    /\ employees \in LegacyEmployees
    /\ next_id = Len(employees) + 1
    /\ attendance = << >>
    /\ now = 0
    /\ call = IdleCall
    /\ worker = IdleWorker
    /\ response = NoResponse
    /\ ScorerIdle
    /\ EnrollIdle

\* views.create_employee
CreateEmployee(name, photos) ==
    LET status == CreateEmployeeStatus(employees, photos)
        face_data == process_registration_photos(photos)
    IN  /\ call.pc = "idle"
        /\ next_id <= MaxEmployees
        /\ IF status = 200
           THEN /\ employees' = employees @@
                       (next_id :> EnrolledAt(Employee(name, 0, TRUE,
                                                       StoredGallery(face_data)),
                                              timezone_now(employees, next_id)))
                /\ next_id' = next_id + 1
           ELSE UNCHANGED << employees, next_id >>
        /\ response' = EnrollResponse("create_employee", status,
                                       DuplicatesOf(employees, photos))
        /\ UNCHANGED << attendance, now, call, worker, scorer_vars, enroll_vars >>

\* a save that writes the flag of the row and not yet its gallery
RegisterFace_FlagFirst(id, photos) ==
    LET status == RegisterFaceStatus(employees, id, photos)
    IN  /\ IF status = 200
           THEN employees' = [ employees EXCEPT ![id].has_face_registered = TRUE ]
           ELSE UNCHANGED employees
        /\ response' = EnrollResponse("register_employee_face", status, {})
        /\ UNCHANGED << next_id, attendance, now, call, worker, scorer_vars, enroll_vars >>

\* a re-enrollment that stores what it extracted before it counts the
\* photos with a descriptor
RegisterFace_SaveFirst(id, photos) ==
    LET status == RegisterFaceStatus(employees, id, photos)
        face_data == process_registration_photos(photos)
    IN  /\ IF status = 200 \/ (status = 400 /\ Len(photos) >= SMART_CONFIG.min_photos)
           THEN employees' = [ WithoutDate(employees, id) EXCEPT
                                 ![id].face_encoding = StoredGallery(face_data),
                                 ![id].has_face_registered = TRUE,
                                 ![id].face_registration_date =
                                     timezone_now(employees, id),
                                 ![id].face_quality_score = One ]
           ELSE UNCHANGED employees
        /\ response' = EnrollResponse("register_employee_face", status,
                                       DuplicatesOf(employees, photos) \ { id })
        /\ UNCHANGED << next_id, attendance, now, call, worker, scorer_vars, enroll_vars >>

\* views.register_employee_face: employee.save() of line 898 writes the
\* gallery and the flag of the row in one UPDATE
RegisterFace(id, photos) ==
    LET status == RegisterFaceStatus(employees, id, photos)
        face_data == process_registration_photos(photos)
    IN  /\ IF status = 200
           THEN employees' = [ WithoutDate(employees, id) EXCEPT
                                 ![id].face_encoding =
                                     RegisteredGallery(employees[id].face_encoding,
                                                       face_data),
                                 ![id].has_face_registered = TRUE,
                                 ![id].face_registration_date =
                                     timezone_now(employees, id),
                                 ![id].face_quality_score = One ]
           ELSE UNCHANGED employees
        /\ response' = EnrollResponse("register_employee_face", status,
                                       DuplicatesOf(employees, photos) \ { id })
        /\ UNCHANGED << next_id, attendance, now, call, worker, scorer_vars, enroll_vars >>

\* register_employee_face while no verification call is in flight
RegisterEmployeeFace(id, photos) == call.pc = "idle" /\ RegisterFace(id, photos)

\* views.delete_employee, at any time
DeleteEmployee(id) ==
    /\ id \in DOMAIN employees
    /\ attendance' = SelectSeq(attendance, LAMBDA r : r.employee # id)
    /\ employees' = [ e \in DOMAIN employees \ { id } |-> WithoutDate(employees, id)[e] ]
    /\ response' = EnrollResponse("delete_employee", 200, {})
    /\ UNCHANGED << next_id, now, call, worker, scorer_vars, enroll_vars >>

\* admin.EmployeeAdmin: the change form of an employee saved with another
\* is_active, while no verification call is in flight
ChangeActive(id) ==
    /\ call.pc = "idle"
    /\ id \in DOMAIN employees
    /\ employees' = [ employees EXCEPT ![id].is_active = ~@ ]
    /\ UNCHANGED << next_id, attendance, call_vars, scorer_vars, enroll_vars >>

\* executor.submit(verify_process), lines 709-710 and 846-847
Request(impl, photo) ==
    /\ call.pc = "idle"
    /\ Len(attendance) < MaxAttendance
    /\ call' = [ impl |-> impl, photo |-> photo, pc |-> "waiting", submit_time |-> 0 ]
    /\ worker' = [ IdleWorker EXCEPT !.pc = "submitted" ]
    /\ now' = 0
    /\ response' = NoResponse
    /\ UNCHANGED << table_vars, scorer_vars, enroll_vars >>

\* time passes while a call is in flight
Tick ==
    /\ call.pc # "idle" /\ worker.pc # "done"
    /\ now <= TimeoutOf(call.impl)
    /\ HasNextInstant(now)
    /\ worker.pc = "submitted" => NextInstant(now) <= MaxStartDelay
    /\ now' = NextInstant(now)
    /\ UNCHANGED << call, worker, response, table_vars, scorer_vars, enroll_vars >>

Elapsed == now - worker.start
Return(w, result) == [ w EXCEPT !.pc = "done", !.result = result ]
ReturnData(w) ==
    Return(w, Success(Data(w.best_match, w.best_confidence, w.all_results)))

\* views.py lines 569-599: decode, record start_detection, try HOG
ViewsStart ==
    /\ call.impl = "views" /\ worker.pc = "submitted"
    /\ worker' = [ worker EXCEPT !.pc = "detect", !.start = now,
                                  !.found = call.photo.hog ]
    /\ UNCHANGED << now, call, response, table_vars, scorer_vars, enroll_vars >>

\* views.py lines 592-625: CNN when there is time, quality gate, descriptor
ViewsDetect ==
    LET timeout == SMART_CONFIG.verification_timeout
        found == IF ~worker.found /\ 2 * Elapsed < timeout
                 THEN call.photo.cnn ELSE worker.found
    IN  /\ call.impl = "views" /\ worker.pc = "detect"
        /\ worker' =
             IF ~found THEN Return(worker, Failure("No se detecto rostro"))
             ELSE IF SMART_CONFIG.require_full_face /\ ~call.photo.full_face
             THEN Return(worker, Failure("Rostro invalido"))
             ELSE IF call.photo.encoding = None
             THEN Return(worker, Failure("list index out of range"))
             ELSE [ worker EXCEPT !.pc = "landmarks", !.found = TRUE,
                                  !.encoding = call.photo.encoding ]
        /\ UNCHANGED << now, call, response, table_vars, scorer_vars, enroll_vars >>

\* views.py lines 627-647: landmarks when there is time, then the query
ViewsLandmarks ==
    LET timeout == SMART_CONFIG.verification_timeout
    IN  /\ call.impl = "views" /\ worker.pc = "landmarks"
        /\ \E rows \in QueryRows(employees) :
               worker' = [ worker EXCEPT
                             !.pc = "search",
                             !.landmarks = IF SMART_CONFIG.use_landmarks
                                              /\ 10 * Elapsed < 8 * timeout
                                           THEN call.photo.landmarks ELSE None,
                             !.rows = rows ]
        /\ UNCHANGED << now, call, response, table_vars, scorer_vars, enroll_vars >>

\* views.py lines 647-703: one turn of the employee loop, or its end
ViewsSearch ==
    LET timeout == SMART_CONFIG.verification_timeout
    IN  /\ call.impl = "views" /\ worker.pc = "search"
        /\ worker' =
             IF worker.rows = << >> THEN ReturnData(worker)
             ELSE IF 10 * Elapsed > 9 * timeout
             THEN ReturnData([ worker EXCEPT !.deadline_hit = TRUE ])
             ELSE [ ViewsIteration(worker, Head(worker.rows), Elapsed, timeout)
                      EXCEPT !.rows = Tail(worker.rows) ]
        /\ UNCHANGED << now, call, response, table_vars, scorer_vars, enroll_vars >>

\* face_recognition_utils.py lines 669-695: record start_time, quality gate
AdvancedStart ==
    /\ call.impl = "advanced" /\ worker.pc = "submitted"
    /\ worker' = IF ~AdvVerifyRejected(call.photo)
                 THEN [ worker EXCEPT !.pc = "detect", !.start = now ]
                 ELSE Return([ worker EXCEPT !.start = now ],
                             Failure("Calidad de imagen demasiado baja"))
    /\ UNCHANGED << now, call, response, table_vars, scorer_vars, enroll_vars >>

\* lines 698-762: locate the face while there is time, then the descriptor
AdvancedDetect ==
    LET timeout == ADVANCED_CONFIG.verification_timeout
        found == IF 10 * Elapsed > 6 * timeout THEN FALSE
                 ELSE call.photo.hog \/ call.photo.cnn
    IN  /\ call.impl = "advanced" /\ worker.pc = "detect"
        /\ worker' =
             IF ~found THEN Return(worker, Failure("No se detecto rostro valido"))
             ELSE IF call.photo.encoding = None
             THEN Return(worker, Failure("No se pudieron extraer caracteristicas"))
             ELSE [ worker EXCEPT !.pc = "landmarks", !.found = TRUE,
                                  !.encoding = call.photo.encoding ]
        /\ UNCHANGED << now, call, response, table_vars, scorer_vars, enroll_vars >>

\* lines 764-785: landmarks when there is time, then the query
AdvancedLandmarks ==
    LET timeout == ADVANCED_CONFIG.verification_timeout
    IN  /\ call.impl = "advanced" /\ worker.pc = "landmarks"
        /\ \E rows \in QueryRows(employees) :
               worker' = [ worker EXCEPT
                             !.pc = "search",
                             !.landmarks = IF ADVANCED_CONFIG.use_landmarks
                                              /\ 10 * Elapsed < 7 * timeout
                                           THEN call.photo.landmarks ELSE None,
                             !.rows = rows ]
        /\ UNCHANGED << now, call, response, table_vars, scorer_vars, enroll_vars >>

\* lines 787-839: one turn of the employee loop, or its end
AdvancedSearch ==
    LET timeout == ADVANCED_CONFIG.verification_timeout
    IN  /\ call.impl = "advanced" /\ worker.pc = "search"
        /\ worker' =
             IF worker.rows = << >> THEN ReturnData(worker)
             ELSE IF 10 * Elapsed > 9 * timeout
             THEN ReturnData([ worker EXCEPT !.deadline_hit = TRUE ])
             ELSE [ AdvancedIteration(worker, Head(worker.rows))
                      EXCEPT !.rows = Tail(worker.rows) ]
        /\ UNCHANGED << now, call, response, table_vars, scorer_vars, enroll_vars >>

\* the timer of future.result(timeout=...) has run out
TimerExpired == now - call.submit_time >= TimeoutOf(call.impl)

\* what the verification call hands to its caller
Returned(data, error, timer_fired) ==
    Response(call.impl,
             IF call.impl = "views" THEN VerifyStatus(data, error) ELSE 0,
             data, error, worker.deadline_hit, timer_fired)

\* verify_attendance_face lines 1014-1043: the record of a verified employee.
\* The foreign key rejects an employee deleted since the worker read it.
Respond(r) ==
    IF r.status = 200
    THEN IF r.data.best_match \in DOMAIN employees
         THEN /\ attendance' = Append(attendance,
                      AttendanceRecord(r.data.best_match, r.data.best_confidence))
              /\ response' = r
         ELSE /\ response' = [ r EXCEPT !.status = 500 ]
              /\ UNCHANGED attendance
    ELSE /\ response' = r
         /\ UNCHANGED attendance

\* future.result returns what the worker returned (lines 712-714, 849-853)
CallResult ==
    /\ call.pc = "waiting" /\ worker.pc = "done"
    /\ Respond(Returned(worker.result.data, worker.result.error, FALSE))
    /\ call' = IdleCall
    /\ worker' = IdleWorker
    /\ now' = 0
    /\ UNCHANGED << employees, next_id, scorer_vars, enroll_vars >>

\* FutureTimeoutError (lines 715-718, 855-857): future.cancel() leaves a
\* running task running, and the return statement leaves the with block
CallTimeout ==
    /\ call.pc = "waiting" /\ worker.pc # "done"
    /\ TimerExpired
    /\ call' = [ call EXCEPT !.pc = "shutdown" ]
    /\ UNCHANGED << now, worker, response, table_vars, scorer_vars, enroll_vars >>

\* a with block that hands over what the late worker returned, in place of
\* the timeout
ExecutorExit_LateResult ==
    /\ call.pc = "shutdown" /\ worker.pc = "done"
    /\ Respond(Returned(worker.result.data, worker.result.error, TRUE))
    /\ call' = IdleCall
    /\ worker' = IdleWorker
    /\ now' = 0
    /\ UNCHANGED << employees, next_id, scorer_vars, enroll_vars >>

\* ThreadPoolExecutor.__exit__ is shutdown(wait=True): the with block is left,
\* and the timeout returned, once the worker task has finished
ExecutorExit ==
    /\ call.pc = "shutdown" /\ worker.pc = "done"
    /\ Respond(Returned(NoData,
                        IF call.impl = "views" THEN ViewsTimeoutError
                        ELSE AdvancedTimeoutError, TRUE))
    /\ call' = IdleCall
    /\ worker' = IdleWorker
    /\ now' = 0
    /\ UNCHANGED << employees, next_id, scorer_vars, enroll_vars >>

Next ==
    \/ \E name \in Names, photos \in RegistrationPhotoLists : CreateEmployee(name, photos)
    \/ \E id \in 1..MaxEmployees, photos \in RegistrationPhotoLists :
           RegisterEmployeeFace(id, photos)
    \/ \E id \in 1..MaxEmployees : DeleteEmployee(id)
    \/ \E id \in 1..MaxEmployees : ChangeActive(id)
    \/ \E impl \in { "views", "advanced" }, photo \in VerifyPhotos : Request(impl, photo)
    \/ Tick
    \/ ViewsStart \/ ViewsDetect \/ ViewsLandmarks \/ ViewsSearch
    \/ AdvancedStart \/ AdvancedDetect \/ AdvancedLandmarks \/ AdvancedSearch
    \/ CallResult \/ CallTimeout \/ ExecutorExit

Spec == Init /\ [][Next]_vars

(***************************************************************************)
(* Enrollment: one photo list is handed to the two enrollment functions    *)
(* and to the enrollment endpoints.                                        *)
(***************************************************************************)
\* a photo list made of two kinds of photo, and a list that is too short
EnrollPhotoLists ==
    { Copies(p, k) \o Copies(q, SMART_CONFIG.min_photos - k) :
          p \in EnrollPhotos, q \in EnrollPhotos, k \in 0..SMART_CONFIG.min_photos }
    \cup { Copies(pA, SMART_CONFIG.min_photos - 1) }

\* the employee that existed before migration 0005, enrolled since with
\* register_employee_face from five copies of photo pF
EnrolledEmployees ==
    { << EnrolledAt(Employee(2, 1, TRUE,
                             StoredGallery(process_registration_photos(Copies(pF, 5)))), 1) >> }

EnrollInit ==
    /\ photos_base64 \in EnrollPhotoLists
    /\ registration = NoRegistration
    /\ employees \in LegacyEmployees \cup EnrolledEmployees
    /\ next_id = Len(employees) + 1
    /\ attendance = << >>
    /\ now = 0
    /\ call = IdleCall
    /\ worker = IdleWorker
    /\ response = NoResponse
    /\ ScorerIdle

\* AdvancedFaceRecognitionService.process_advanced_registration(photos_base64)
ProcessAdvancedRegistration ==
    /\ registration' =
           [ by |-> "advanced",
             result |-> process_advanced_registration(photos_base64),
             calls |-> [i \in 1..Len(photos_base64) |->
                            AdvRegistrationCalls(photos_base64[i])] ]
    /\ UNCHANGED << photos_base64, scorer_vars, table_vars, call_vars >>

\* views.process_registration_photos(photos_base64)
ProcessRegistrationPhotos ==
    /\ registration' =
           [ by |-> "views",
             result |-> process_registration_photos(photos_base64),
             calls |-> [i \in 1..Len(photos_base64) |->
                            RegistrationCalls(photos_base64[i])] ]
    /\ UNCHANGED << photos_base64, scorer_vars, table_vars, call_vars >>

EnrollNext ==
    \/ ProcessAdvancedRegistration
    \/ ProcessRegistrationPhotos
    \/ \E name \in Names : CreateEmployee(name, photos_base64)
    \/ \E id \in 1..MaxEmployees : RegisterEmployeeFace(id, photos_base64)
    \/ \E id \in 1..MaxEmployees : DeleteEmployee(id)

EnrollSpec == EnrollInit /\ [][EnrollNext]_vars

(***************************************************************************)
(* Re-enrollment concurrent with verification: register_employee_face is   *)
(* answered by another request thread at any point of a verification call. *)
(***************************************************************************)
\* the employee that existed before migration 0005, not enrolled or enrolled
\* from copies of pF, alone or with an employee made by create_employee
ReenrollTables ==
    { << Employee(2, 1, FALSE, NoFaceEncoding) >>,
      << EnrolledAt(Employee(2, 1, TRUE,
                             StoredGallery(process_registration_photos(Copies(pF, 5)))), 1),
         EnrolledAt(Employee(1, 0, TRUE,
                             StoredGallery(process_registration_photos(Copies(pA, 5)))), 2) >> }

ReenrollPhotoLists == { Copies(pA, 5), Copies(pB, 5), Copies(pNoFace, 5) }

ReenrollInit ==
    /\ employees \in ReenrollTables
    /\ next_id = Len(employees) + 1
    /\ attendance = << >>
    /\ now = 0
    /\ call = IdleCall
    /\ worker = IdleWorker
    /\ response = NoResponse
    /\ ScorerIdle
    /\ EnrollIdle

ReenrollNext ==
    \/ \E id \in 1..MaxEmployees, photos \in ReenrollPhotoLists : RegisterFace(id, photos)
    \/ \E impl \in { "views", "advanced" }, photo \in { pA, pF } : Request(impl, photo)
    \/ Tick
    \/ ViewsStart \/ ViewsDetect \/ ViewsLandmarks \/ ViewsSearch
    \/ AdvancedStart \/ AdvancedDetect \/ AdvancedLandmarks \/ AdvancedSearch
    \/ CallResult \/ CallTimeout \/ ExecutorExit

ReenrollSpec == ReenrollInit /\ [][ReenrollNext]_vars

(***************************************************************************)
(* Verification over a table that holds a row the views did not write (a   *)
(* data import): has_face_registered is set and face_encoding is NULL, or  *)
(* its descriptors do not have the length of a descriptor.  Scoring such a *)
(* row raises.                                                             *)
(***************************************************************************)
\* a gallery whose descriptors have another length than the live descriptor
CorruptGallery ==
    [ StoredGallery(process_registration_photos(Copies(pA, 5)))
          EXCEPT !.encodings = Copies(vBad, 5) ]

\* the employee enrolled from five copies of pA by create_employee
Healthy(name) ==
    EnrolledAt(Employee(name, 0, TRUE,
                        StoredGallery(process_registration_photos(Copies(pA, 5)))), 1)

FaultTables ==
    { << Employee(1, 1, TRUE, CorruptGallery), Healthy(2) >>,
      << Employee(1, 1, TRUE, NoFaceEncoding), Healthy(2) >>,
      << Healthy(1), Employee(2, 1, TRUE, CorruptGallery) >> }

FaultInit ==
    /\ employees \in FaultTables
    /\ next_id = Len(employees) + 1
    /\ attendance = << >>
    /\ now = 0
    /\ call = IdleCall
    /\ worker = IdleWorker
    /\ response = NoResponse
    /\ ScorerIdle
    /\ EnrollIdle

FaultNext ==
    \/ \E impl \in { "views", "advanced" }, photo \in VerifyPhotos : Request(impl, photo)
    \/ Tick
    \/ ViewsStart \/ ViewsDetect \/ ViewsLandmarks \/ ViewsSearch
    \/ AdvancedStart \/ AdvancedDetect \/ AdvancedLandmarks \/ AdvancedSearch
    \/ CallResult \/ CallTimeout \/ ExecutorExit

FaultSpec == FaultInit /\ [][FaultNext]_vars

(***************************************************************************)
(* Claims about verification calls and enrollment, checked under Spec.     *)
(***************************************************************************)
\* the worker has returned the outcome of a gallery search
SearchEnded == worker.pc = "done" /\ worker.result.success
MatchedResults(data) ==
    { i \in DOMAIN data.all_results : data.all_results[i].match }

\* C2: the gallery search of either verify_process returns as best match only
\* an employee it scored with is_match = true, that employee has the highest
\* confidence among the employees scored with is_match = true, and there is
\* no best match when no employee was scored with is_match = true.
C2_BestIsHighestMatch ==
    SearchEnded =>
        LET data == worker.result.data
            matched == MatchedResults(data)
        IN  IF matched = {} THEN data.best_match = 0
            ELSE /\ \E i \in matched :
                       /\ data.all_results[i].employee = data.best_match
                       /\ data.all_results[i].confidence = data.best_confidence
                 /\ \A j \in matched :
                       data.all_results[j].confidence <= data.best_confidence

\* C3: a call whose worker has not finished when verification_timeout elapses
\* returns the timeout outcome, its return does not wait for the worker task
\* to finish, and it never returns a match.
C3_TimeoutSafety ==
    /\ call.pc = "shutdown" => ENABLED ExecutorExit
    /\ response.timer_fired =>
           /\ response.error \in { ViewsTimeoutError, AdvancedTimeoutError }
           /\ ~response.data.present
           /\ response.status # 200

\* C4: a verification that ran out of time, by the outer timer or by the
\* worker leaving its employee loop at the internal deadline, is reported as
\* the timeout outcome (408 by verify_attendance_face), never as 403 nor as
\* an extraction failure.
C4_TimeoutReported ==
    (response.timer_fired \/ response.deadline_hit) =>
        /\ response.op = "views" =>
               response.status = 408 /\ response.error = ViewsTimeoutError
        /\ response.op = "advanced" => response.error = AdvancedTimeoutError

\* C5: create_employee with photos that match the gallery of an employee
\* already enrolled is rejected, so two enrollments of different employees
\* with identical photos never both succeed.
C5_DuplicateEnrollmentGuard ==
    (response.op = "create_employee" /\ response.duplicates # {}) =>
        response.status # 200

\* C6: an AttendanceRecord is created only in the step in which the
\* verification call of verify_attendance_face returns, before its timer has
\* fired, a complete result that names a best match, and the record names that
\* employee; a timeout, a failure, a search without a match, and a worker
\* that finishes after the timeout create none.
C6_NoRecordBeforeVerdict ==
    [][ Len(attendance') > Len(attendance) =>
          /\ call.impl = "views" /\ call.pc = "waiting" /\ worker.pc = "done"
          /\ worker.result.success /\ worker.result.error = NoError
          /\ worker.result.data.present /\ worker.result.data.best_match # 0
          /\ attendance' = Append(attendance,
                 AttendanceRecord(worker.result.data.best_match,
                                  worker.result.data.best_confidence))
          /\ response'.status = 200 /\ ~response'.timer_fired ]_vars

\* verify_attendance_face answered 200 and the last record names the best match
C6_Witness ==
    /\ attendance # << >>
    /\ response.op = "views" /\ response.status = 200
    /\ response.data.best_match = attendance[Len(attendance)].employee

(***************************************************************************)
(* Claims about enrollment, checked under EnrollSpec.                      *)
(***************************************************************************)
ByAdvancedRegistration == registration.by = "advanced"

\* the photos of the list for which process_advanced_registration obtains a
\* descriptor: of sufficient quality, with a face located and encoded
AdvUsable ==
    { i \in 1..Len(photos_base64) :
          /\ ~AdvRegistrationRejected(photos_base64[i])
          /\ photos_base64[i].hog \/ photos_base64[i].cnn
          /\ photos_base64[i].encoding # None }

\* the photos for which process_registration_photos obtains a descriptor
ViewsUsable ==
    { i \in 1..Len(photos_base64) :
          /\ photos_base64[i].hog \/ photos_base64[i].cnn
          /\ photos_base64[i].encoding # None }

\* an enrollment endpoint answers in this step
EnrollmentAnswered ==
    /\ response' # response \/ employees' # employees
    /\ response'.op \in { "create_employee", "register_employee_face" }

NewDescriptors ==
    SelectSeq([i \in 1..Len(photos_base64) |->
                   IF i \in ViewsUsable THEN photos_base64[i].encoding ELSE None],
              LAMBDA e : e # None)

\* the landmark vectors of the photos of the list with a face
NewLandmarks ==
    SelectSeq([i \in 1..Len(photos_base64) |->
                   IF photos_base64[i].hog \/ photos_base64[i].cnn
                   THEN photos_base64[i].landmarks ELSE None],
              LAMBDA l : l # None)

\* register_employee_face answers 200 in this step
RegisterSucceeded ==
    /\ response' # response \/ employees' # employees
    /\ response'.op = "register_employee_face"
    /\ response'.status = 200

\* C15: after a successful register_employee_face the stored gallery of the
\* employee consists exactly of the descriptors, landmarks and variants of the
\* newly submitted photos; no entry of the previous gallery remains, and no
\* other employee is touched.
C15_WholesaleReplacement ==
    [][ RegisterSucceeded =>
          \E id \in DOMAIN employees :
              LET gallery == employees'[id].face_encoding
              IN  /\ DOMAIN employees' = DOMAIN employees
                  /\ \A other \in DOMAIN employees \ { id } :
                         /\ employees'[other].face_encoding
                                = employees[other].face_encoding
                         /\ employees'[other].has_face_registered
                                = employees[other].has_face_registered
                  /\ employees'[id].has_face_registered
                  /\ gallery.encodings = NewDescriptors
                  /\ gallery.landmarks = NewLandmarks
                  /\ gallery.augmented = [i \in 1..Len(NewDescriptors) |->
                                              << NewDescriptors[i] >>]
      ]_vars

\* the employee enrolled from copies of pF holds, after a re-enrollment from
\* three usable photos, three descriptors none of which is that of pF
C15_Witness ==
    /\ response.op = "register_employee_face"
    /\ response.status = 200
    /\ \E e \in DOMAIN employees :
           /\ employees[e].rut = 1
           /\ Len(employees[e].face_encoding.encodings) = min_valid_required
           /\ \A j \in 1..min_valid_required : employees[e].face_encoding.encodings[j] # vF

\* the primitives called on photo i by the enrollment function applied
CalledOn(i) == { registration.calls[i][j] : j \in DOMAIN registration.calls[i] }

\* the quality check refused photo i: it is listed as failed with the reason
\* of the quality check
RejectedByQuality(i) ==
    /\ ByAdvancedRegistration
    /\ \E j \in DOMAIN registration.result.failed_reasons :
           registration.result.failed_reasons[j]
               = [ photo |-> i, reason |-> "Calidad extremadamente baja" ]

\* C17: an enrollment photo whose pixel dimensions are below the minimum
\* (50 x 50) is rejected by the quality check, and neither face localization
\* nor descriptor extraction is called for it.
C17_SmallPhotoRejected ==
    registration.by # "none" =>
        \A i \in 1..Len(photos_base64) :
            photos_base64[i].small =>
                /\ RejectedByQuality(i)
                /\ CalledOn(i) \cap { "face_locations", "face_encodings" } = {}

\* C24: every image that process_advanced_registration does not refuse for
\* its quality passes the quality check of advanced_verify as well.
C24_EnrollmentQualityStricter ==
    ByAdvancedRegistration =>
        \A i \in 1..Len(photos_base64) :
            ~RejectedByQuality(i) => ~AdvVerifyRejected(photos_base64[i])

\* process_advanced_registration went on with an image that
\* detect_image_quality finds not acceptable, and took its descriptor
C24_Witness ==
    /\ ByAdvancedRegistration
    /\ \E i \in 1..Len(photos_base64) :
           /\ ~detect_image_quality(photos_base64[i].measures).is_acceptable
           /\ ~RejectedByQuality(i)
           /\ photos_base64[i].encoding # None
           /\ \E j \in DOMAIN registration.result.encodings :
                  registration.result.encodings[j] = photos_base64[i].encoding

\* photo i is listed as failed by the enrollment function applied
ListedAsFailed(i) ==
    IF ByAdvancedRegistration
    THEN \E j \in DOMAIN registration.result.failed_reasons :
             registration.result.failed_reasons[j].photo = i
    ELSE \E j \in DOMAIN registration.result.failed_photos :
             registration.result.failed_photos[j] = i

\* a localizer finds a face in the photo, and the region it finds is smaller
\* than the minimum face size or within the margin of the image border
IncompleteFace(photo) ==
    /\ photo.hog \/ photo.cnn
    /\ photo.small
    /\ ~photo.full_face

\* C25: in enrollment, a photo whose face region is smaller than the minimum
\* size or touches the image border is listed as failed, and face_encodings
\* is not called on it, whichever localizer found the region.
C25_NoExtractionOnIncompleteFace ==
    registration.by # "none" =>
        \A i \in 1..Len(photos_base64) :
            IncompleteFace(photos_base64[i]) =>
                /\ ListedAsFailed(i)
                /\ "face_encodings" \notin CalledOn(i)

\* the landmark vectors of the photos that gave a descriptor to the
\* enrollment function applied, in the order of the list
LandmarksOfUsable ==
    LET usable == IF ByAdvancedRegistration THEN AdvUsable ELSE ViewsUsable
    IN  SelectSeq([i \in 1..Len(photos_base64) |->
                       IF i \in usable THEN photos_base64[i].landmarks ELSE None],
                  LAMBDA l : l # None)

\* C27: in the gallery an enrollment function returns, 'landmarks' has no
\* more entries than 'encodings', and its entries are the landmark vectors
\* of photos that gave a descriptor as well.
C27_LandmarksWithinDescriptors ==
    registration.by # "none" =>
        /\ Len(registration.result.landmarks) <= Len(registration.result.encodings)
        /\ registration.result.landmarks = LandmarksOfUsable

(***************************************************************************)
(* Claims about the Employee table, checked under Spec.                    *)
(***************************************************************************)
\* the descriptors stored for an employee, << >> when the gallery is absent
StoredDescriptors(e) == Get(employees[e].face_encoding, "encodings", << >>)

\* C14: after any sequence of create_employee, register_employee_face and
\* delete_employee calls, every employee with has_face_registered = true has a
\* gallery with a non-empty descriptor list, and every employee whose gallery
\* is empty or absent has has_face_registered = false.
C14_RegisteredGallery ==
    \A e \in DOMAIN employees :
        /\ employees[e].has_face_registered => StoredDescriptors(e) # << >>
        /\ StoredDescriptors(e) = << >> => ~employees[e].has_face_registered

\* an employee enrolled from three usable photos of five, next to an employee
\* without gallery whose enrollment was just refused
C14_Witness ==
    /\ \E e \in DOMAIN employees :
           employees[e].has_face_registered /\ Len(StoredDescriptors(e)) = min_valid_required
    /\ \E e \in DOMAIN employees :
           ~employees[e].has_face_registered /\ employees[e].face_encoding = NoFaceEncoding
    /\ response.op = "register_employee_face"
    /\ response.status = 400

(***************************************************************************)
(* Claims about the outcome of a verification call, checked under Spec.    *)
(***************************************************************************)
\* the verification call in flight returns in this step
CallReturns == call.pc # "idle" /\ call'.pc = "idle"

\* the outcome is "unauthorized": 403 from verify_attendance_face; from
\* advanced_verify, a completed search over some employee without best match
Unauthorized(r) ==
    IF r.op = "views" THEN r.status = 403
    ELSE r.error = NoError /\ r.data.present /\ r.data.best_match = 0
         /\ r.data.all_results # << >>

\* the reasons verify_process gives when it obtains no descriptor
ExtractionFailures ==
    { "No se detecto rostro", "Rostro invalido", "list index out of range",
      "Calidad de imagen demasiado baja", "No se detecto rostro valido",
      "No se pudieron extraer caracteristicas" }

\* no localizer finds a face in the photo, it has no descriptor, or it fails
\* the quality check of the implementation called
NothingToExtract(impl, photo) ==
    \/ ~(photo.hog \/ photo.cnn)
    \/ photo.encoding = None
    \/ IF impl = "views" THEN SMART_CONFIG.require_full_face /\ ~photo.full_face
       ELSE AdvVerifyRejected(photo)

\* C16: a verification call returns "unauthorized" only when a descriptor was
\* extracted from the photo and the search scored some employee and matched
\* none; for a photo without face or descriptor, or failing the quality
\* check, a call that returns before its timer fires reports an extraction or
\* quality failure with its reason (400 from the endpoint), never unauthorized.
C16_UnauthorizedIsDistinct ==
    [][ CallReturns =>
          /\ Unauthorized(response') =>
                /\ worker.encoding # None
                /\ ~NothingToExtract(call.impl, call.photo)
                /\ \A i \in DOMAIN response'.data.all_results :
                       ~response'.data.all_results[i].match
          /\ NothingToExtract(call.impl, call.photo) =>
                /\ ~Unauthorized(response')
                /\ ~response'.timer_fired =>
                      /\ response'.error \in ExtractionFailures
                      /\ ~response'.data.present
                      /\ call.impl = "views" => response'.status = 400
      ]_vars

\* 403 for a photo whose descriptor matched none of the employees scored
C16_Witness ==
    /\ response.op = "views"
    /\ response.status = 403
    /\ ~response.deadline_hit
    /\ Len(response.data.all_results) = 1
    /\ ~response.data.all_results[1].match

\* the worker begins the comparison of the next employee in this step
BeginsScoring ==
    /\ worker.pc = "search"
    /\ worker.rows # << >>
    /\ worker'.rows = Tail(worker.rows)

\* C19: once the timer of a verification call has fired (the caller has taken
\* the timeout branch), the worker begins scoring no further employee,
\* whatever the delay between the submit and the start the worker records.
C19_NoScoringAfterTimeout ==
    [][ call.pc = "shutdown" => ~BeginsScoring ]_vars

\* the employees scored with is_match = true at the highest confidence of
\* such employees
TiedBest(data) ==
    LET matched == MatchedResults(data)
    IN  { data.all_results[i].employee : i \in
            { i \in matched : \A j \in matched :
                  data.all_results[j].confidence <= data.all_results[i].confidence } }

\* C20: when two or more employees are scored is_match = true with the same
\* highest confidence, the search returns the one of them enrolled earliest,
\* whatever the names of the employees are.
C20_TieBreakByEnrollment ==
    SearchEnded =>
        LET data == worker.result.data
            tied == TiedBest(data)
        IN  (Cardinality(tied) >= 2 /\ tied \subseteq Dated(employees)) =>
                /\ data.best_match \in tied
                /\ \A e \in tied :
                       employees[data.best_match].face_registration_date
                           <= employees[e].face_registration_date

\* C28: every AttendanceRecord that verify_attendance_face creates names an
\* employee that the search scored as a match with a confidence of at least
\* min_confidence of SMART_CONFIG, and holds that confidence as
\* face_confidence, on the quick path near the deadline as well.
C28_RecordOnlyForMatch ==
    [][ Len(attendance') > Len(attendance) =>
          LET record == attendance'[Len(attendance')]
              all_results == worker.result.data.all_results
          IN  \E i \in DOMAIN all_results :
                  /\ all_results[i].employee = record.employee
                  /\ all_results[i].match
                  /\ all_results[i].confidence >= SMART_CONFIG.min_confidence
                  /\ all_results[i].confidence = record.face_confidence ]_vars

\* the employee is in the table, active, enrolled and holds a gallery
Eligible(table, id) ==
    /\ id \in DOMAIN table
    /\ table[id].is_active
    /\ table[id].has_face_registered
    /\ table[id].face_encoding # NoFaceEncoding

\* the worker reads the employees it is going to score
RowsRead == worker.pc # "search" /\ worker'.pc = "search"

\* C29: a verification scores only employees that, when it reads the table,
\* are active, have has_face_registered set and hold a gallery; its best match
\* is one of the employees it scored, and the call returns that best match.
\* An employee made inactive, never enrolled or deleted before the
\* verification started is therefore never its best match, and the employee
\* of a 200 response is active and enrolled when the response is given.
C29_OnlyEligibleScored ==
    [][ /\ RowsRead =>
              /\ worker'.best_match = 0
              /\ \A i \in DOMAIN worker'.rows :
                     Eligible(employees, worker'.rows[i].id)
        /\ (~RowsRead /\ worker'.rows # worker.rows) =>
              \/ worker'.rows = << >>
              \/ worker.rows # << >> /\ worker'.rows = Tail(worker.rows)
        /\ worker'.best_match # worker.best_match =>
              \/ worker'.best_match = 0
              \/ /\ worker.pc = "search" /\ worker.rows # << >>
                 /\ worker'.best_match = Head(worker.rows).id
        /\ (CallReturns /\ response'.data.best_match # 0) =>
              response'.data.best_match = worker.best_match
        /\ (CallReturns /\ response'.status = 200) =>
              Eligible(employees', response'.data.best_match) ]_vars

\* a verification has ended with a best match while the table holds an
\* inactive employee enrolled with the descriptor of the submitted photo,
\* which is not among the employees it scored
C29_Witness ==
    /\ SearchEnded
    /\ worker.best_match # 0
    /\ \E id \in DOMAIN employees :
           /\ ~employees[id].is_active
           /\ employees[id].has_face_registered
           /\ employees[id].face_encoding # NoFaceEncoding
           /\ \E j \in DOMAIN employees[id].face_encoding.encodings :
                  employees[id].face_encoding.encodings[j] = call.photo.encoding
           /\ \A i \in DOMAIN worker.all_results :
                  worker.all_results[i].employee # id

\* what register_employee_face writes of an employee
EnrollmentOf(row) ==
    [ face_encoding |-> row.face_encoding,
      has_face_registered |-> row.has_face_registered,
      face_registration_date |-> row.face_registration_date,
      face_quality_score |-> row.face_quality_score ]

\* C30: a register_employee_face call that is refused (400 for fewer than
\* min_photos photos or fewer than 3 photos with a descriptor, 404 for an
\* employee that does not exist or is inactive) leaves the gallery, the
\* has_face_registered flag, the registration date and the quality score of
\* every employee as they were.
C30_FailedReenrollmentKeepsRow ==
    [][ \A id \in 1..MaxEmployees, photos \in RegistrationPhotoLists :
            (RegisterEmployeeFace(id, photos) /\ response'.status # 200) =>
                /\ response'.status \in { 400, 404 }
                /\ DOMAIN employees' = DOMAIN employees
                /\ \A e \in DOMAIN employees :
                       EnrollmentOf(employees'[e]) = EnrollmentOf(employees[e]) ]_vars

\* register_employee_face has answered 404 for an employee of the table: one
\* that is enrolled and was made inactive
C30_Witness ==
    /\ response.op = "register_employee_face" /\ response.status = 404
    /\ DOMAIN employees = 1..MaxEmployees
    /\ \A e \in DOMAIN employees :
           /\ employees[e].has_face_registered
           /\ employees[e].face_quality_score = One
           /\ employees[e].face_encoding # NoFaceEncoding
    /\ \E e \in DOMAIN employees : ~employees[e].is_active

(***************************************************************************)
(* Claims about a fault while scoring, checked under FaultSpec.            *)
(***************************************************************************)
\* scoring the gallery of the row raises: json.loads(None), or a stored
\* descriptor that cannot be subtracted from the live one
Unscorable(face_encoding, encoding) ==
    \/ "null" \in DOMAIN face_encoding
    \/ \E i \in DOMAIN Get(face_encoding, "encodings", << >>) :
           /\ face_encoding.encodings[i] # None
           /\ ShapeMismatch(face_encoding.encodings[i], encoding)

\* C26: an exception raised while the gallery of one employee is scored does
\* not leave the loop: the employee is not matched, the loop goes on with
\* the next employee, and the search returns a result, not the exception.
C26_ScoringFaultContained ==
    [][ /\ (/\ worker.pc = "search"
            /\ worker.rows # << >>
            /\ Unscorable(Head(worker.rows).face_encoding, worker.encoding)
            /\ worker' # worker) =>
               \/ worker'.pc = "done" /\ worker'.deadline_hit
               \/ /\ worker'.pc = "search"
                  /\ worker'.rows = Tail(worker.rows)
                  /\ worker'.best_match = worker.best_match
                  /\ worker'.best_confidence = worker.best_confidence
                  /\ \A i \in DOMAIN worker'.all_results \ DOMAIN worker.all_results :
                         ~worker'.all_results[i].match
        /\ (worker.pc = "search" /\ worker'.pc = "done") =>
               worker'.result.success /\ worker'.result.data.present
      ]_vars

\* a search ended with the second employee as best match, after the row of
\* the first one, which cannot be scored, was met
C26_Witness ==
    /\ SearchEnded
    /\ DOMAIN employees = { 1, 2 }
    /\ Unscorable(employees[1].face_encoding, call.photo.encoding)
    /\ employees[1].name < employees[2].name
    /\ worker.result.data.best_match = 2
    /\ ~worker.deadline_hit

(***************************************************************************)
(* Claims about concurrent re-enrollment, checked under ReenrollSpec.      *)
(***************************************************************************)
\* the galleries a finished enrollment stores: those of the photo lists with
\* enough usable photos
CompleteGalleries ==
    { StoredGallery(process_registration_photos(photos)) :
          photos \in { l \in ReenrollPhotoLists \cup { Copies(pF, 5) } :
                           process_registration_photos(l).valid_photos
                               >= min_valid_required } }

\* C18: the rows a verification call read and still has to score hold, each,
\* a complete gallery of a finished enrollment (the old or the new one, never
\* a mixture or an absent one) although the employee is re-enrolled while the
\* call runs; a row is read only with has_face_registered = true.
C18_AtomicReplacement ==
    \A i \in DOMAIN worker.rows :
        /\ worker.rows[i].face_encoding \in CompleteGalleries
        /\ worker.rows[i].face_encoding.encodings # << >>

\* the worker is about to score the old gallery of an employee who has been
\* re-enrolled from other photos since the worker read the rows
C18_Witness ==
    /\ worker.pc = "search"
    /\ worker.rows # << >>
    /\ Head(worker.rows).id \in DOMAIN employees
    /\ employees[Head(worker.rows).id].face_encoding # Head(worker.rows).face_encoding
    /\ response.op = "register_employee_face"
    /\ response.status = 200

====
